---- MODULE Spec2Model ----
(***************************************************************************)
(* A model of src/charts.py: load_datasets, build_fact, the seven metric   *)
(* derivers and the control flow of main.                                  *)
(*                                                                         *)
(* A table (pandas DataFrame) is a record [cols, rows]: cols is the set of *)
(* column names, rows a sequence of records over exactly those columns.    *)
(* Cell values are integers: identifiers, currency amounts and day         *)
(* ordinals are >= 0, NaN is the missing value (NaN, NaT, None in a cell)  *)
(* and Garbled is a text that parses neither as a date nor as a number.    *)
(* Currency amounts are whole numbers, so sums are exact.  Plotting is     *)
(* modelled only by the chart file that save_fig leaves on disk.           *)
(***************************************************************************)
EXTENDS Integers, Sequences, FiniteSets, TLC

VARIABLES
    fstatus,     \* the input directory: file of each dataset absent, unparsable or ok
    csv,         \* the table each file holds when it parses
    chartFiles,  \* the chart files that exist in CHART_DIR
    pc,          \* position of main
    datasets,    \* main's datasets mapping (logical name -> table)
    fact,        \* main's fact table
    ran,         \* the derivers called so far, in call order
    ret,         \* what each deriver call returned, or that it raised
    charts,      \* main's charts dict (chart key -> path or None)
    analytics,   \* main's analytics dict
    deck         \* the chart map handed to build_presentation

vars == <<fstatus, csv, chartFiles, pc, datasets, fact, ran, ret, charts, analytics, deck>>

----------------------------------------------------------------------------
(* Values *)

NaN == -1
Garbled == -2

\* The model's calendar: every month has DaysPerMonth days; a timestamp is a
\* day ordinal and a month is identified by the ordinal of its first day.
DaysPerMonth == 2

Names == {"orders", "customers", "items", "products", "payments", "reviews",
          "sellers", "geolocation"}

Derivers == {"revenue_trends", "average_order_value", "payment_distribution",
             "category_contribution", "cohort_retention", "delivery_vs_reviews",
             "revenue_by_state"}

MainOrder == <<"revenue_trends", "average_order_value", "payment_distribution",
               "category_contribution", "cohort_retention", "delivery_vs_reviews",
               "revenue_by_state">>

\* The chart keys main assigns after each deriver; the key is also the name of
\* the chart file (CHART_DIR/<key>.png).
ChartKeys(d) ==
    CASE d = "revenue_trends" -> {"revenue_trend", "revenue_growth_pct", "revenue_orders_dual"}
      [] d = "average_order_value" -> {"aov_trend"}
      [] d = "payment_distribution" -> {"payment_distribution"}
      [] d = "category_contribution" -> {"top10_categories_revenue"}
      [] d = "cohort_retention" -> {"cohort_retention_heatmap"}
      [] d = "delivery_vs_reviews" -> {"delivery_delay_vs_reviews"}
      [] d = "revenue_by_state" -> {"revenue_by_state"}

AllChartKeys == UNION {ChartKeys(d) : d \in Derivers}

NonePath == "None"

----------------------------------------------------------------------------
(* Tables *)

Table(cols, rows) == [cols |-> cols, rows |-> rows]

NoTable == Table({}, <<>>)

\* DataFrame.empty: some axis has length 0.
IsEmpty(t) == t.cols = {} \/ Len(t.rows) = 0

RECURSIVE SumSeq(_)
SumSeq(s) == IF s = <<>> THEN 0 ELSE Head(s) + SumSeq(Tail(s))

RECURSIVE Flatten(_)
Flatten(ss) == IF ss = <<>> THEN <<>> ELSE Head(ss) \o Flatten(Tail(ss))

RECURSIVE SortedSeq(_)
SortedSeq(S) ==
    IF S = {} THEN <<>>
    ELSE LET m == CHOOSE x \in S : \A y \in S : x <= y
         IN <<m>> \o SortedSeq(S \ {m})

Indices(rows) == 1..Len(rows)

\* df.dropna(subset=cs)
DropNa(rows, cs) == SelectSeq(rows, LAMBDA r : \A c \in cs : r[c] # NaN)

\* df[cs]
Project(rows, cs) == [i \in Indices(rows) |-> [c \in cs |-> rows[i][c]]]

\* The values of column c in rows, NaN skipped (what sum and nunique see).
Vals(rows, c) == SelectSeq([i \in Indices(rows) |-> rows[i][c]], LAMBDA v : v # NaN)

\* Series.sum(): NaN is skipped.
ColSum(rows, c) == SumSeq(Vals(rows, c))

\* Series.nunique(): NaN is not counted.
NUnique(rows, c) == Cardinality({rows[i][c] : i \in Indices(rows)} \ {NaN})

\* The group keys of groupby(c): NaN keys are dropped.
Keys(rows, c) == {rows[i][c] : i \in Indices(rows)} \ {NaN}

Group(rows, c, k) == SelectSeq(rows, LAMBDA r : r[c] = k)

\* df.groupby(c)[v].sum(): a series indexed by the group keys.
GroupSum(rows, c, v) == [k \in Keys(rows, c) |-> ColSum(Group(rows, c, k), v)]

\* df.groupby(c)[v].nunique()
GroupNUnique(rows, c, v) == [k \in Keys(rows, c) |-> NUnique(Group(rows, c, k), v)]

\* left.merge(right, left_on=lk, right_on=rk, how="left"): every left row, once
\* per matching right row, or once with NaN in the right columns when nothing
\* matches.  rcols are the columns the right side adds.
LeftMerge(left, right, lk, rk, rcols) ==
    LET nulls == [c \in rcols |-> NaN]
        one(l) ==
            LET ms == SelectSeq(right, LAMBDA r : r[rk] = l[lk])
            IN IF ms = <<>> THEN <<l @@ nulls>>
               ELSE [j \in Indices(ms) |-> l @@ [c \in rcols |-> ms[j][c]]]
    IN Flatten([i \in Indices(left) |-> one(left[i])])

\* pd.to_datetime(x, errors="coerce"): a day ordinal parses, anything else is NaT.
ToDatetime(v) == IF v >= 0 THEN v ELSE NaN

\* pd.to_numeric(x, errors="coerce")
ToNumeric(v) == IF v >= 0 THEN v ELSE NaN

\* .dt.to_period("M").dt.to_timestamp(): the first day of the timestamp's month.
MonthStart(t) == IF t = NaN THEN NaN ELSE (t \div DaysPerMonth) * DaysPerMonth

\* Period difference in months (x.n).
MonthsBetween(a, b) == (a \div DaysPerMonth) - (b \div DaysPerMonth)

----------------------------------------------------------------------------
(* load_datasets *)

\* The loop body without its try/except: a read_csv failure leaves the function.
LoadOneNoCatch(status) ==
    CASE status = "absent" -> "missing"
      [] status = "unparsable" -> "raised"
      [] status = "ok" -> "loaded"

\* One turn of the loop over files: "loaded", "missing" (file absent),
\* "failed" (read_csv raised and the except clause logged it).
LoadOne(status) ==
    CASE status = "absent" -> "missing"
      [] status = "unparsable" -> "failed"
      [] status = "ok" -> "loaded"

\* load_datasets: the mapping returned, or that an exception left the function.
LoadDatasets(st, content) ==
    IF \E k \in Names : LoadOne(st[k]) = "raised"
    THEN [raised |-> TRUE, datasets |-> <<>>]
    ELSE [raised |-> FALSE,
          datasets |-> [k \in {n \in Names : LoadOne(st[n]) = "loaded"} |-> content[k]]]

----------------------------------------------------------------------------
(* build_fact *)

\* datasets.get("payments", pd.DataFrame())
PaymentsOf(ds) == IF "payments" \in DOMAIN ds THEN ds["payments"] ELSE NoTable

\* The ungrouped payment rows, one per payment: what a merge without the
\* groupby would join.
PayAggUngrouped(rows) == Project(rows, {"order_id", "payment_value"})

\* payments.groupby("order_id", as_index=False).agg({"payment_value": "sum"}):
\* one row per order_id, in key order.
PayAgg(rows) ==
    LET s == GroupSum(rows, "order_id", "payment_value")
        ks == SortedSeq(DOMAIN s)
    IN [i \in Indices(ks) |-> [order_id |-> ks[i], payment_value |-> s[ks[i]]]]

\* fillna left out: the payment sum as it is.
RevenueNoFill(v) == v

\* fact["payment_value"].fillna(0.0)
Revenue(v) == IF v = NaN THEN 0 ELSE v

\* orders = datasets["orders"] (no copy): the local is the caller's table itself.
BuildFactInPlace == TRUE

\* Whether the local `orders` of build_fact is the caller's table itself:
\* orders = datasets["orders"].copy() makes it a copy.
BuildFactAliasesOrders == FALSE

\* The exception build_fact raises, or "none".
BuildFactError(ds) ==
    IF "orders" \notin DOMAIN ds THEN "FileNotFoundError"
    ELSE IF "order_purchase_timestamp" \notin ds["orders"].cols THEN "KeyError"
    ELSE IF /\ ~IsEmpty(PaymentsOf(ds))
            /\ ~({"order_id", "payment_value"} \subseteq PaymentsOf(ds).cols) THEN "KeyError"
    ELSE IF "order_id" \notin ds["orders"].cols THEN "KeyError"
    ELSE "none"

\* The local `orders` after lines 65-67: purchase timestamp parsed, month added.
BuildFactOrders(t) ==
    Table(t.cols \cup {"month"},
          [i \in Indices(t.rows) |->
              LET ts == ToDatetime(t.rows[i]["order_purchase_timestamp"])
              IN ("order_purchase_timestamp" :> ts) @@ ("month" :> MonthStart(ts)) @@ t.rows[i]])

\* The table build_fact returns (when it does not raise).
BuildFact(ds) ==
    LET orders == BuildFactOrders(ds["orders"])
        payments == PaymentsOf(ds)
        pay == IF ~IsEmpty(payments) THEN PayAgg(payments.rows) ELSE <<>>
        merged == LeftMerge(orders.rows, pay, "order_id", "order_id", {"payment_value"})
    IN Table(orders.cols \cup {"payment_value", "revenue"},
             [i \in Indices(merged) |->
                 ("revenue" :> Revenue(merged[i]["payment_value"])) @@ merged[i]])

\* The caller's datasets after build_fact: the column assignments of lines
\* 65-67 land in the caller's table only if the local aliases it.
DatasetsAfterBuildFact(ds) ==
    IF BuildFactAliasesOrders /\ BuildFactError(ds) = "none"
    THEN [ds EXCEPT !["orders"] = BuildFactOrders(ds["orders"])]
    ELSE ds

----------------------------------------------------------------------------
(* Results of the derivers *)

\* What a call gave: a value, the null sentinel None, or an exception.
Value(v) == [kind |-> "value", val |-> v]
None == [kind |-> "None", val |-> <<>>]
Raise == [kind |-> "raise", val |-> <<>>]
Pending == [kind |-> "pending", val |-> <<>>]

\* A float that is a quotient: num / den.  den = 0 is what the division gives
\* for a zero divisor (inf, or NaN when num = 0 too).
Ratio(n, d) == [num |-> n, den |-> d]

\* s.sort_values(ascending=False).head(n) (value_counts().head(n) alike): the
\* series cut to n keys of largest value.
HeadDesc(s, n) ==
    IF Cardinality(DOMAIN s) <= n THEN s
    ELSE LET top == CHOOSE T \in SUBSET DOMAIN s :
                        /\ Cardinality(T) = n
                        /\ \A a \in T : \A b \in (DOMAIN s) \ T : s[a] >= s[b]
         IN [k \in top |-> s[k]]

----------------------------------------------------------------------------
(* revenue_trends *)

\* groupby("month")["revenue"].max(): an aggregate other than the sum.
MonthlyRevenueMax(rows) ==
    [k \in Keys(rows, "month") |->
        LET g == Group(rows, "month", k)
        IN CHOOSE v \in {g[i]["revenue"] : i \in Indices(g)} :
               \A i \in Indices(g) : g[i]["revenue"] <= v]

\* df.groupby("month")["revenue"].sum().sort_index()
MonthlyRevenue(rows) == GroupSum(rows, "month", "revenue")

\* rev.pct_change().fillna(0): the change as a fraction, not times 100.
GrowthFraction(rev) ==
    LET ms == SortedSeq(DOMAIN rev)
        pct(i) ==
            IF i = 1 THEN Ratio(0, 1)
            ELSE LET prev == rev[ms[i - 1]]
                     cur == rev[ms[i]]
                 IN IF prev = 0 /\ cur = prev THEN Ratio(0, 1)
                    ELSE Ratio(cur - prev, prev)
    IN [m \in DOMAIN rev |-> pct(CHOOSE i \in Indices(ms) : ms[i] = m)]

\* rev.pct_change().fillna(0) * 100 on the month-sorted series.
Growth(rev) ==
    LET ms == SortedSeq(DOMAIN rev)
        pct(i) ==
            IF i = 1 THEN Ratio(0, 1)
            ELSE LET prev == rev[ms[i - 1]]
                     cur == rev[ms[i]]
                 IN IF prev = 0 /\ cur = prev THEN Ratio(0, 1)
                    ELSE Ratio((cur - prev) * 100, prev)
    IN [m \in DOMAIN rev |-> pct(CHOOSE i \in Indices(ms) : ms[i] = m)]

\* fact.dropna(subset=["month"], inplace=True): the caller's table loses its
\* rows of null month.
RevenueTrendsFactInPlace(f) == Table(f.cols, DropNa(f.rows, {"month"}))

\* The caller's Fact table after revenue_trends: df = fact.dropna(subset=["month"])
\* builds a new frame and fact keeps its rows.
RevenueTrendsFact(f) == f

RevenueTrends(f) ==
    LET df == DropNa(f.rows, {"month"})
        rev == MonthlyRevenue(df)
    IN Value([rev |-> rev,
              orders |-> GroupNUnique(df, "month", "order_id"),
              growth |-> Growth(rev)])

----------------------------------------------------------------------------
(* average_order_value *)

AverageOrderValue(f) ==
    LET df == DropNa(f.rows, {"month"})
        total == GroupSum(df, "month", "revenue")
        orders == GroupNUnique(df, "month", "order_id")
    IN Value([m \in DOMAIN total |-> Ratio(total[m], orders[m])])

----------------------------------------------------------------------------
(* payment_distribution *)

\* payments["payment_type"].value_counts(): occurrences of each value, NaN left out.
ValueCounts(rows, c) ==
    [k \in Keys(rows, c) |-> Len(Group(rows, c, k))]

\* The function without its guard of lines 131-133.
PaymentDistributionNoGuard(ds) ==
    IF "payments" \notin DOMAIN ds \/ "payment_type" \notin ds["payments"].cols
    THEN Raise
    ELSE Value(HeadDesc(ValueCounts(ds["payments"].rows, "payment_type"), 8))

PaymentDistribution(ds) ==
    IF "payments" \notin DOMAIN ds \/ "payment_type" \notin ds["payments"].cols
    THEN None
    ELSE Value(HeadDesc(ValueCounts(ds["payments"].rows, "payment_type"), 8))

----------------------------------------------------------------------------
(* category_contribution *)

\* The label of line 150 for a missing category.
Unknown == -3

\* cat_sales of line 151, before the sort and the cut: revenue summed per category.
CatSales(ds, f) ==
    LET items == ds["items"]
        products == ds["products"]
        df1 == LeftMerge(items.rows, products.rows, "product_id", "product_id",
                         products.cols \ {"product_id"})
        df2 == LeftMerge(df1, Project(f.rows, {"order_id", "revenue"}),
                         "order_id", "order_id", {"revenue"})
        df == [i \in Indices(df2) |->
                 ("cat" :> (IF df2[i]["product_category_name"] = NaN THEN Unknown
                            ELSE df2[i]["product_category_name"])) @@ df2[i]]
    IN GroupSum(df, "cat", "revenue")

CategoryContribution(ds, f) ==
    IF "items" \notin DOMAIN ds \/ "products" \notin DOMAIN ds THEN None
    ELSE IF \/ "product_id" \notin ds["items"].cols
            \/ "product_id" \notin ds["products"].cols
            \/ "order_id" \notin ds["items"].cols
            \/ "product_category_name" \notin ds["products"].cols THEN Raise
    ELSE Value(HeadDesc(CatSales(ds, f), 10))

----------------------------------------------------------------------------
(* cohort_retention *)

\* The latest month of each customer, in place of the earliest.
CohortMonthLast(rows) ==
    [c \in Keys(rows, "customer_id") |->
        LET g == Group(rows, "customer_id", c)
        IN CHOOSE m \in {g[i]["month"] : i \in Indices(g)} :
               \A i \in Indices(g) : g[i]["month"] <= m]

\* customers.groupby("customer_id")["month"].min()
CohortMonth(rows) ==
    [c \in Keys(rows, "customer_id") |->
        LET g == Group(rows, "customer_id", c)
        IN CHOOSE m \in {g[i]["month"] : i \in Indices(g)} :
               \A i \in Indices(g) : m <= g[i]["month"]]

\* The retention table: cohort_month -> cohort_index -> percent, a quotient
\* count * 100 / cohort size.  pivot.iloc[:, 0] is the column of the smallest
\* cohort_index and raises IndexError when the pivot has no column.
CohortRetention(f) ==
    IF "customer_id" \notin f.cols THEN None
    ELSE LET customers == Project(DropNa(f.rows, {"customer_id", "month"}),
                                  {"customer_id", "month"})
             cohort == CohortMonth(customers)
             index(r) == MonthsBetween(r["month"], cohort[r["customer_id"]])
             cms == {cohort[c] : c \in DOMAIN cohort}
             cis == {index(customers[i]) : i \in Indices(customers)}
             count(cm, ci) ==
                 Cardinality({customers[i]["customer_id"] : i \in
                     {j \in Indices(customers) :
                         /\ cohort[customers[j]["customer_id"]] = cm
                         /\ index(customers[j]) = ci}})
             pivot == [cm \in cms |-> [ci \in cis |-> count(cm, ci)]]
         IN IF cis = {} THEN Raise
            ELSE LET first == CHOOSE c \in cis : \A d \in cis : c <= d
                     sizes == [cm \in cms |-> pivot[cm][first]]
                 IN Value([cm \in cms |->
                             [ci \in cis |-> Ratio(pivot[cm][ci] * 100, sizes[cm])]])

----------------------------------------------------------------------------
(* delivery_vs_reviews *)

\* reviews = datasets["reviews"], orders = datasets["orders"] (no copies).
DeliveryVsReviewsInPlace == TRUE

\* reviews = datasets["reviews"].copy(), orders = datasets["orders"].copy():
\* the locals are copies.
DeliveryVsReviewsAliases == FALSE

DeliveryVsReviewsRaises(ds) ==
    \/ "order_delivered_customer_date" \notin ds["orders"].cols
    \/ "order_estimated_delivery_date" \notin ds["orders"].cols
    \/ "review_score" \notin ds["reviews"].cols
    \/ "order_id" \notin ds["orders"].cols
    \/ "order_id" \notin ds["reviews"].cols

\* The local `orders` after lines 191-194.
DelayOrders(t) ==
    Table(t.cols \cup {"delay_days"},
          [i \in Indices(t.rows) |->
              LET del == ToDatetime(t.rows[i]["order_delivered_customer_date"])
                  est == ToDatetime(t.rows[i]["order_estimated_delivery_date"])
              IN ("order_delivered_customer_date" :> del)
                 @@ ("order_estimated_delivery_date" :> est)
                 @@ ("delay_days" :> (IF del = NaN \/ est = NaN THEN NaN ELSE del - est))
                 @@ t.rows[i]])

\* The local `reviews` after line 193.
ScoredReviews(t) ==
    Table(t.cols,
          [i \in Indices(t.rows) |->
              ("review_score" :> ToNumeric(t.rows[i]["review_score"])) @@ t.rows[i]])

DeliveryVsReviews(ds, f) ==
    IF "reviews" \notin DOMAIN ds \/ "orders" \notin DOMAIN ds THEN None
    ELSE IF DeliveryVsReviewsRaises(ds) THEN Raise
    ELSE LET df == LeftMerge(ScoredReviews(ds["reviews"]).rows,
                             Project(DelayOrders(ds["orders"]).rows, {"order_id", "delay_days"}),
                             "order_id", "order_id", {"delay_days"})
         IN Value(DropNa(df, {"review_score", "delay_days"}))

\* The caller's datasets after delivery_vs_reviews: its column assignments land
\* in the caller's tables only if the locals alias them.
DatasetsAfterDeliveryVsReviews(ds) ==
    IF DeliveryVsReviewsAliases /\ DeliveryVsReviews(ds, NoTable).kind = "value"
    THEN [ds EXCEPT !["orders"] = DelayOrders(ds["orders"]),
                    !["reviews"] = ScoredReviews(ds["reviews"])]
    ELSE ds

----------------------------------------------------------------------------
(* revenue_by_state *)

\* The most frequent value that occurs first in row order, or the first value
\* when all are missing.
ModeFirstObserved(vals) ==
    LET present == {vals[i] : i \in Indices(vals)} \ {NaN}
        n(v) == Cardinality({i \in Indices(vals) : vals[i] = v})
        modes == {v \in present : \A w \in present : n(w) <= n(v)}
    IN IF modes # {}
       THEN vals[CHOOSE i \in Indices(vals) :
                     vals[i] \in modes /\ \A j \in 1..(i - 1) : vals[j] \notin modes]
       ELSE vals[1]

\* x.mode().iat[0] if len(x.mode()) > 0 else x.iloc[0]: mode() leaves NaN out
\* and lists the most frequent values in ascending order.
ModeOrFirst(vals) ==
    LET present == {vals[i] : i \in Indices(vals)} \ {NaN}
        n(v) == Cardinality({i \in Indices(vals) : vals[i] = v})
        modes == {v \in present : \A w \in present : n(w) <= n(v)}
    IN IF modes # {} THEN CHOOSE v \in modes : \A w \in modes : v <= w
       ELSE vals[1]

\* zip_state of line 218: one row per zip prefix, in key order.
ZipState(rows) ==
    LET ks == SortedSeq(Keys(rows, "geolocation_zip_code_prefix"))
    IN [i \in Indices(ks) |->
          LET g == Group(rows, "geolocation_zip_code_prefix", ks[i])
          IN [geolocation_zip_code_prefix |-> ks[i],
              geolocation_state |->
                  ModeOrFirst([j \in Indices(g) |-> g[j]["geolocation_state"]])]]

\* rev_state of line 227 before the cut: revenue summed per state.
RevState(ds, f) ==
    LET cust == LeftMerge(Project(ds["customers"].rows,
                                  {"customer_id", "customer_zip_code_prefix"}),
                          ZipState(ds["geolocation"].rows),
                          "customer_zip_code_prefix", "geolocation_zip_code_prefix",
                          {"geolocation_zip_code_prefix", "geolocation_state"})
        byCust == GroupSum(f.rows, "customer_id", "revenue")
        ks == SortedSeq(DOMAIN byCust)
        revByCust == [i \in Indices(ks) |-> [customer_id |-> ks[i], revenue |-> byCust[ks[i]]]]
        joined == LeftMerge(revByCust, cust, "customer_id", "customer_id",
                            {"customer_zip_code_prefix", "geolocation_zip_code_prefix",
                             "geolocation_state"})
    IN GroupSum(joined, "geolocation_state", "revenue")

RevenueByState(ds, f) ==
    IF "geolocation" \notin DOMAIN ds \/ "customers" \notin DOMAIN ds THEN None
    ELSE IF "geolocation_zip_code_prefix" \notin ds["geolocation"].cols THEN None
    ELSE IF "geolocation_state" \notin ds["geolocation"].cols THEN Raise
    ELSE IF "customer_zip_code_prefix" \notin ds["customers"].cols THEN None
    ELSE IF "customer_id" \notin ds["customers"].cols THEN Raise
    ELSE IF "customer_id" \notin f.cols THEN Raise
    ELSE LET top == HeadDesc(RevState(ds, f), 15)
         IN IF DOMAIN top = {} THEN None ELSE Value(top)

----------------------------------------------------------------------------
(* main *)

\* The entry written for every chart key, whatever the deriver returned.
ChartEntryAlways(d, r) == [k \in ChartKeys(d) |-> k]

\* The entries main writes into charts after deriver d returned r: the path of
\* the chart, or None where main tests `is not None` and r is None.
ChartEntry(d, r) ==
    [k \in ChartKeys(d) |->
        IF d \in {"revenue_trends", "average_order_value"} \/ r.kind # "None"
        THEN k ELSE NonePath]

\* The entries main writes into analytics after deriver d returned r.
AnalyticsEntry(d, r) ==
    CASE d = "revenue_trends" -> r.val
      [] d = "average_order_value" -> [aov |-> r.val]
      [] OTHER -> <<>>

\* charts = {k: v for k, v in charts.items() if v is not None and os.path.exists(v)}
FilterCharts(ch, files) ==
    [k \in {c \in DOMAIN ch : ch[c] # NonePath /\ c \in files} |-> ch[k]]

\* The call main makes for deriver d, on datasets ds and Fact table f.
Derive(d, ds, f) ==
    CASE d = "revenue_trends" -> RevenueTrends(f)
      [] d = "average_order_value" -> AverageOrderValue(f)
      [] d = "payment_distribution" -> PaymentDistribution(ds)
      [] d = "category_contribution" -> CategoryContribution(ds, f)
      [] d = "cohort_retention" -> CohortRetention(f)
      [] d = "delivery_vs_reviews" -> DeliveryVsReviews(ds, f)
      [] d = "revenue_by_state" -> RevenueByState(ds, f)

\* The caller's datasets after the call of deriver d.
DatasetsAfter(d, ds) ==
    IF d = "delivery_vs_reviews" THEN DatasetsAfterDeliveryVsReviews(ds) ELSE ds

\* The caller's Fact table after the call of deriver d.
FactAfter(d, f) == IF d = "revenue_trends" THEN RevenueTrendsFact(f) ELSE f

LoadStep ==
    /\ pc = "load"
    /\ LET r == LoadDatasets(fstatus, csv)
       IN IF r.raised
          THEN pc' = "crashed" /\ datasets' = datasets
          ELSE pc' = "build" /\ datasets' = r.datasets
    /\ UNCHANGED <<fstatus, csv, chartFiles, fact, ran, ret, charts, analytics, deck>>

\* Lines 400-404: build_fact, and sys.exit(1) when it raises.
BuildFactStep ==
    /\ pc = "build"
    /\ IF BuildFactError(datasets) # "none"
       THEN pc' = "fatal" /\ fact' = fact
       ELSE pc' = "derive" /\ fact' = BuildFact(datasets)
    /\ datasets' = DatasetsAfterBuildFact(datasets)
    /\ UNCHANGED <<fstatus, csv, chartFiles, ran, ret, charts, analytics, deck>>

\* One try block of main: deriver d is called and gives r, leaving the
\* caller's datasets as dsAfter and its Fact table as the deriver leaves it.  An exception is caught and logged; otherwise
\* the chart files are on disk and main records the entries.
Try(d, r, dsAfter) ==
    /\ pc = "derive"
    /\ Len(ran) < Len(MainOrder)
    /\ MainOrder[Len(ran) + 1] = d
    /\ ran' = Append(ran, d)
    /\ ret' = [ret EXCEPT ![d] = r]
    /\ chartFiles' = IF r.kind = "value" THEN chartFiles \cup ChartKeys(d) ELSE chartFiles
    /\ charts' = IF r.kind = "raise" THEN charts ELSE ChartEntry(d, r) @@ charts
    /\ analytics' = IF r.kind = "raise" THEN analytics ELSE AnalyticsEntry(d, r) @@ analytics
    /\ datasets' = dsAfter
    /\ fact' = FactAfter(d, fact)
    /\ pc' = IF Len(ran) + 1 = Len(MainOrder) THEN "assemble" ELSE "derive"
    /\ UNCHANGED <<fstatus, csv, deck>>

RevenueTrendsStep == Try("revenue_trends", RevenueTrends(fact), datasets)

AverageOrderValueStep == Try("average_order_value", AverageOrderValue(fact), datasets)

PaymentDistributionStep == Try("payment_distribution", PaymentDistribution(datasets), datasets)

CategoryContributionStep ==
    Try("category_contribution", CategoryContribution(datasets, fact), datasets)

CohortRetentionStep == Try("cohort_retention", CohortRetention(fact), datasets)

DeliveryVsReviewsStep ==
    Try("delivery_vs_reviews", DeliveryVsReviews(datasets, fact),
        DatasetsAfterDeliveryVsReviews(datasets))

RevenueByStateStep == Try("revenue_by_state", RevenueByState(datasets, fact), datasets)

\* Lines 463-466: the filter, then build_presentation(charts, analytics).
AssembleStep ==
    /\ pc = "assemble"
    /\ charts' = FilterCharts(charts, chartFiles)
    /\ deck' = [called |-> TRUE, charts |-> charts']
    /\ pc' = "done"
    /\ UNCHANGED <<fstatus, csv, chartFiles, datasets, fact, ran, ret, analytics>>

Next ==
    \/ LoadStep
    \/ BuildFactStep
    \/ RevenueTrendsStep
    \/ AverageOrderValueStep
    \/ PaymentDistributionStep
    \/ CategoryContributionStep
    \/ CohortRetentionStep
    \/ DeliveryVsReviewsStep
    \/ RevenueByStateStep
    \/ AssembleStep

----------------------------------------------------------------------------
(* Inputs *)

MaxOrders == 2
MaxPayments == 2
MaxCohortOrders == 3

OrdersCols == {"order_id", "customer_id", "order_purchase_timestamp",
               "order_delivered_customer_date", "order_estimated_delivery_date"}
PaymentsCols == {"order_id", "payment_type", "payment_value"}

OrderRow(o, c, ts, del, est) ==
    [order_id |-> o, customer_id |-> c, order_purchase_timestamp |-> ts,
     order_delivered_customer_date |-> del, order_estimated_delivery_date |-> est]

PaymentRow(o, t, v) == [order_id |-> o, payment_type |-> t, payment_value |-> v]

\* A small, fully-formed input directory.
Sample ==
    [orders |-> Table(OrdersCols,
                      <<OrderRow(1, 1, 0, 3, 2), OrderRow(2, 2, DaysPerMonth, NaN, 5)>>),
     payments |-> Table(PaymentsCols,
                        <<PaymentRow(1, 1, 100), PaymentRow(2, 1, 50), PaymentRow(2, 2, 25)>>),
     items |-> Table({"order_id", "product_id"},
                     <<[order_id |-> 1, product_id |-> 1], [order_id |-> 2, product_id |-> 2]>>),
     products |-> Table({"product_id", "product_category_name"},
                        <<[product_id |-> 1, product_category_name |-> 1],
                          [product_id |-> 2, product_category_name |-> NaN]>>),
     reviews |-> Table({"order_id", "review_score"},
                       <<[order_id |-> 1, review_score |-> 5],
                         [order_id |-> 2, review_score |-> Garbled]>>),
     customers |-> Table({"customer_id", "customer_zip_code_prefix"},
                         <<[customer_id |-> 1, customer_zip_code_prefix |-> 1],
                           [customer_id |-> 2, customer_zip_code_prefix |-> 2]>>),
     sellers |-> Table({"seller_id"}, <<[seller_id |-> 1]>>),
     geolocation |-> Table({"geolocation_zip_code_prefix", "geolocation_state"},
                           <<[geolocation_zip_code_prefix |-> 1, geolocation_state |-> 1],
                             [geolocation_zip_code_prefix |-> 1, geolocation_state |-> 1],
                             [geolocation_zip_code_prefix |-> 1, geolocation_state |-> 2],
                             [geolocation_zip_code_prefix |-> 2, geolocation_state |-> 2]>>)]

\* Table t without the columns in cs.
DropCols(t, cs) ==
    Table(t.cols \ cs, [i \in Indices(t.rows) |-> [c \in t.cols \ cs |-> t.rows[i][c]]])

\* The sequences over S of length at most n.
SeqsUpTo(S, n) == UNION {[1..k -> S] : k \in 0..n}

Start ==
    /\ pc = "load"
    /\ datasets = <<>>
    /\ fact = NoTable
    /\ ran = <<>>
    /\ ret = [d \in Derivers |-> Pending]
    /\ charts = <<>>
    /\ analytics = <<>>
    /\ deck = [called |-> FALSE, charts |-> <<>>]

\* Every file absent, unparsable or well-formed.
InitPresence ==
    /\ fstatus \in [Names -> {"absent", "unparsable", "ok"}]
    /\ csv = Sample
    /\ chartFiles = {}
    /\ Start

\* Table k of the sample as it is, or without one of its columns.
Variants(k) == {Sample[k]} \cup {DropCols(Sample[k], {c}) : c \in Sample[k].cols}

\* Every file there; each table lacks at most one of its columns; the chart
\* directory is empty or holds the charts of an earlier run.
InitSchema ==
    /\ fstatus = [k \in Names |-> "ok"]
    /\ \E o \in Variants("orders"), p \in Variants("payments"), i \in Variants("items"),
          pr \in Variants("products"), r \in Variants("reviews"),
          c \in Variants("customers"), g \in Variants("geolocation") :
          csv = [orders |-> o, payments |-> p, items |-> i, products |-> pr, reviews |-> r,
                 customers |-> c, sellers |-> Sample["sellers"], geolocation |-> g]
    /\ chartFiles \in {{}, AllChartKeys}
    /\ Start

Init == InitPresence \/ InitSchema

Spec == Init /\ [][Next]_vars

----------------------------------------------------------------------------
(* Inputs that vary the rows *)

\* Orders that differ in order_id (possibly missing, possibly repeated).
JoinOrderRows == {OrderRow(o, 1, 0, 3, 2) : o \in {NaN, 1, 2}}

\* Payments of one or two units for order 1, order 2, or no order.
JoinPaymentRows == {PaymentRow(o, 1, v) : o \in {NaN, 1, 2}, v \in {1, 2}}

\* Order and payment rows vary; the payments file may be absent.
InitJoin ==
    /\ \E o \in SeqsUpTo(JoinOrderRows, MaxOrders) :
          \/ /\ fstatus = [k \in Names |-> "ok"]
             /\ \E p \in SeqsUpTo(JoinPaymentRows, MaxPayments) :
                   csv = [Sample EXCEPT !["orders"] = Table(OrdersCols, o),
                                        !["payments"] = Table(PaymentsCols, p)]
          \/ /\ fstatus = [k \in Names |-> IF k = "payments" THEN "absent" ELSE "ok"]
             /\ csv = [Sample EXCEPT !["orders"] = Table(OrdersCols, o)]
    /\ chartFiles = {}
    /\ Start

\* Purchase timestamps: unparsable, two days of the first month, the first day
\* of the second month.
CohortTimestamps == {Garbled, 0, 1, DaysPerMonth}

\* Payments for orders 1 (one payment), 2 (split in two) and 3; none for later orders.
CohortPayments ==
    Table(PaymentsCols,
          <<PaymentRow(1, 1, 100), PaymentRow(2, 1, 50), PaymentRow(2, 2, 25),
            PaymentRow(3, 1, 10)>>)

\* Orders 1..n that differ in customer (possibly missing) and purchase timestamp.
InitCohort ==
    /\ fstatus = [k \in Names |-> "ok"]
    /\ \E n \in 0..MaxCohortOrders :
          \E f \in [1..n -> {NaN, 1, 2} \X CohortTimestamps] :
             csv = [Sample EXCEPT
                       !["orders"] = Table(OrdersCols,
                                           [i \in 1..n |-> OrderRow(i, f[i][1], f[i][2], 3, 2)]),
                       !["payments"] = CohortPayments]
    /\ chartFiles = {}
    /\ Start

MaxTrendOrders == 2
MaxItems == 2
MaxGeolocations == 3

\* Orders of three months whose order_id is missing, 1 (paid 100), 2 (paid
\* 50 + 25) or 4 (not paid), with the payments of CohortPayments.
InitTrend ==
    /\ fstatus = [k \in Names |-> "ok"]
    /\ \E o \in SeqsUpTo({OrderRow(id, 1, ts, 3, 2) :
                             id \in {NaN, 1, 2, 4},
                             ts \in {0, DaysPerMonth, 2 * DaysPerMonth}}, MaxTrendOrders) :
          csv = [Sample EXCEPT !["orders"] = Table(OrdersCols, o),
                               !["payments"] = CohortPayments]
    /\ chartFiles = {}
    /\ Start

\* Item rows vary: an order may have no item, one item or several, of
\* product 1 (category 1), product 2 (no category) or an unknown product.
InitItems ==
    /\ fstatus = [k \in Names |-> "ok"]
    /\ \E i \in SeqsUpTo({[order_id |-> o, product_id |-> p] :
                             o \in {1, 2}, p \in {1, 2, 3}}, MaxItems) :
          csv = [Sample EXCEPT !["items"] = Table({"order_id", "product_id"}, i)]
    /\ chartFiles = {}
    /\ Start

\* Geolocation rows vary: zip prefixes 1 and 2, states 1, 2 or missing, in
\* any row order.
InitGeolocation ==
    /\ fstatus = [k \in Names |-> "ok"]
    /\ \E g \in SeqsUpTo({[geolocation_zip_code_prefix |-> z, geolocation_state |-> st] :
                             z \in {1, 2}, st \in {NaN, 1, 2}}, MaxGeolocations) :
          csv = [Sample EXCEPT
                    !["geolocation"] =
                        Table({"geolocation_zip_code_prefix", "geolocation_state"}, g)]
    /\ chartFiles = {}
    /\ Start

InitData == InitJoin \/ InitCohort \/ InitTrend \/ InitItems \/ InitGeolocation

SpecData == InitData /\ [][Next]_vars

----------------------------------------------------------------------------
(* Properties *)

\* build_fact has returned the Fact table.
Built == pc \in {"derive", "assemble", "done"}

Called(d) == ret[d].kind # "pending"

RECURSIVE SumFun(_)
SumFun(f) ==
    IF DOMAIN f = {} THEN 0
    ELSE LET k == CHOOSE x \in DOMAIN f : TRUE
         IN f[k] + SumFun([x \in (DOMAIN f) \ {k} |-> f[x]])

\* The Payment rows that carry order_id o (a missing order_id is carried by none).
PaymentsFor(o) ==
    IF o = NaN THEN <<>>
    ELSE SelectSeq(PaymentsOf(datasets).rows, LAMBDA p : p["order_id"] = o)

\* C1: the Fact table has exactly as many rows as the Order table, whatever
\* the number of payment rows of each order.
C1_FactRowCount == Built => Len(fact.rows) = Len(datasets["orders"].rows)

\* An order with two payment rows and an order with none went through build_fact.
C1_Witness ==
    /\ Built
    /\ \E i \in Indices(fact.rows) : Len(PaymentsFor(fact.rows[i]["order_id"])) >= 2
    /\ \E i \in Indices(fact.rows) : Len(PaymentsFor(fact.rows[i]["order_id"])) = 0

\* C2: every Fact row's revenue is the sum of payment_value over the Payment
\* rows that carry its order_id, and 0 when there is none.
C2_RevenueIsPaymentSum ==
    Built =>
        \A i \in Indices(fact.rows) :
            LET ps == PaymentsFor(fact.rows[i]["order_id"])
            IN fact.rows[i]["revenue"] = SumSeq([j \in Indices(ps) |-> ps[j]["payment_value"]])

\* A split payment was added up and an order without payment got revenue 0.
C2_Witness ==
    /\ Built
    /\ \E i \in Indices(fact.rows) :
          /\ Len(PaymentsFor(fact.rows[i]["order_id"])) >= 2
          /\ fact.rows[i]["revenue"] >= 2
    /\ \E i \in Indices(fact.rows) :
          /\ Len(PaymentsFor(fact.rows[i]["order_id"])) = 0
          /\ fact.rows[i]["revenue"] = 0

\* C3: with the Order dataset loaded (all of its columns there), main never
\* takes the fatal exit, whatever the other datasets and their columns are.
C3_FatalOnlyWithoutOrders ==
    ("orders" \in DOMAIN datasets /\ datasets["orders"].cols = OrdersCols) => pc # "fatal"

\* C4: whatever derivers raise or skip, all seven are called, build_presentation
\* is called, and the chart map it gets has no entry of a deriver that raised
\* or returned None.
C4_FailuresAreSkipped ==
    /\ pc = "derive" => Len(ran) < Len(MainOrder)
    /\ pc \in {"assemble", "done"} => \A d \in Derivers : Called(d)
    /\ pc = "done" =>
          /\ deck.called
          /\ \A d \in Derivers :
                ret[d].kind \in {"raise", "None"} => ChartKeys(d) \cap DOMAIN deck.charts = {}

\* A run in which one deriver raised, one returned None and one succeeded, with
\* the chart files of an earlier run on disk, reached build_presentation.
C4_Witness ==
    /\ pc = "done"
    /\ AllChartKeys \subseteq chartFiles
    /\ \E d \in Derivers : ret[d].kind = "raise"
    /\ \E d \in Derivers : ret[d].kind = "None"
    /\ \E d \in Derivers : ret[d].kind = "value" /\ ChartKeys(d) \subseteq DOMAIN deck.charts

\* C5: payment_distribution, category_contribution, cohort_retention,
\* delivery_vs_reviews and revenue_by_state return None, and never raise, when
\* a dataset or a column they need is absent.
C5_DeriversSkipGracefully ==
    \A d \in {"payment_distribution", "category_contribution", "cohort_retention",
              "delivery_vs_reviews", "revenue_by_state"} :
        ret[d].kind # "raise"

\* C6: with no Payment dataset loaded, build_fact succeeds, every Fact row has
\* revenue 0, and payment_distribution returns None.
C6_NoPayments ==
    (pc # "load" /\ "payments" \notin DOMAIN datasets) =>
        /\ pc \notin {"fatal", "crashed"}
        /\ Built => /\ Len(fact.rows) = Len(datasets["orders"].rows)
                    /\ \A i \in Indices(fact.rows) : fact.rows[i]["revenue"] = 0
        /\ Called("payment_distribution") => ret["payment_distribution"].kind = "None"

\* A run without the payments file built a Fact table with rows and called
\* payment_distribution.
C6_Witness ==
    /\ pc = "done"
    /\ "payments" \notin DOMAIN datasets
    /\ Len(fact.rows) >= 2
    /\ ret["payment_distribution"].kind = "None"

\* C7: load_datasets never raises, and its mapping has a key exactly for the
\* datasets whose file exists and parses.
C7_LoaderTotal ==
    /\ pc # "crashed"
    /\ pc # "load" => DOMAIN datasets = {k \in Names : fstatus[k] = "ok"}

\* load_datasets returned with an absent, an unparsable and a well-formed file.
C7_Witness ==
    /\ pc = "build"
    /\ \E k \in Names : fstatus[k] = "absent"
    /\ \E k \in Names : fstatus[k] = "unparsable"
    /\ \E k \in Names : fstatus[k] = "ok" /\ k \in DOMAIN datasets

\* C8: the monthly revenue series of revenue_trends adds up to the revenue of
\* the Fact rows whose month is not null.
C8_TrendSum ==
    ret["revenue_trends"].kind = "value" =>
        SumFun(ret["revenue_trends"].val.rev) =
            SumSeq([i \in Indices(fact.rows) |->
                       IF fact.rows[i]["month"] = NaN THEN 0 ELSE fact.rows[i]["revenue"]])

\* revenue_trends ran on a Fact table with a paid order of null month and two
\* paid orders in one month.
C8_Witness ==
    /\ ret["revenue_trends"].kind = "value"
    /\ \E i \in Indices(fact.rows) :
          fact.rows[i]["month"] = NaN /\ fact.rows[i]["revenue"] > 0
    /\ \E i, j \in Indices(fact.rows) :
          /\ i # j
          /\ fact.rows[i]["month"] # NaN
          /\ fact.rows[i]["month"] = fact.rows[j]["month"]
          /\ fact.rows[i]["revenue"] > 0
          /\ fact.rows[j]["revenue"] > 0

\* The Fact table has a row with a customer_id and a month.
HasCohortRow ==
    \E i \in Indices(fact.rows) :
        fact.rows[i]["customer_id"] # NaN /\ fact.rows[i]["month"] # NaN

\* C9: when the Fact table has a row with customer_id and month, cohort_retention
\* returns a table whose value at cohort_index 0 is 100 for every cohort.
C9_IndexZeroIsHundred ==
    (Called("cohort_retention") /\ "customer_id" \in fact.cols /\ HasCohortRow) =>
        /\ ret["cohort_retention"].kind = "value"
        /\ \A cm \in DOMAIN ret["cohort_retention"].val :
              LET row == ret["cohort_retention"].val[cm]
              IN /\ 0 \in DOMAIN row
                 /\ row[0].den # 0
                 /\ row[0].num = 100 * row[0].den

\* cohort_retention returned a table with a cohort of two customers of whom one
\* came back a month later (retention 50 at index 1).
C9_Witness ==
    /\ ret["cohort_retention"].kind = "value"
    /\ \E cm \in DOMAIN ret["cohort_retention"].val :
          LET row == ret["cohort_retention"].val[cm]
          IN /\ 1 \in DOMAIN row
             /\ row[1].den = 2
             /\ row[1].num = 100

\* C10: build_fact and the derivers leave the loaded datasets and the Fact
\* table as they were.
C10_InputsUnchanged ==
    [][/\ pc # "load" => datasets' = datasets
       /\ pc \in {"derive", "assemble"} => fact' = fact]_vars

\* build_fact and all seven derivers ran to a value.
C10_Witness ==
    /\ pc = "done"
    /\ \A d \in Derivers : ret[d].kind = "value"

----------------------------------------------------------------------------
(* The derivers called in any order *)

MaxAnyOrderOrders == 2

\* The try block of deriver d, taken whenever d has not been called yet: the
\* seven blocks of main in an arbitrary order.  ran lists the derivers called
\* so far in the order main names them.
CallAnyOrder(d) ==
    /\ pc = "derive"
    /\ ret[d].kind = "pending"
    /\ LET r == Derive(d, datasets, fact)
       IN /\ ret' = [ret EXCEPT ![d] = r]
          /\ chartFiles' = IF r.kind = "value" THEN chartFiles \cup ChartKeys(d)
                           ELSE chartFiles
          /\ charts' = IF r.kind = "raise" THEN charts ELSE ChartEntry(d, r) @@ charts
          /\ analytics' = IF r.kind = "raise" THEN analytics
                          ELSE AnalyticsEntry(d, r) @@ analytics
    /\ ran' = SelectSeq(MainOrder, LAMBDA x : x = d \/ ret[x].kind # "pending")
    /\ datasets' = DatasetsAfter(d, datasets)
    /\ fact' = FactAfter(d, fact)
    /\ pc' = IF \A x \in Derivers \ {d} : ret[x].kind # "pending" THEN "assemble"
             ELSE "derive"
    /\ UNCHANGED <<fstatus, csv, deck>>

NextAnyOrder ==
    \/ LoadStep
    \/ BuildFactStep
    \/ \E d \in Derivers : CallAnyOrder(d)
    \/ AssembleStep

\* Orders 1..n that differ in customer and purchase timestamp (possibly
\* unparsable), with the payments of CohortPayments; the geolocation file may
\* be absent.
InitAnyOrder ==
    /\ fstatus \in {[k \in Names |-> "ok"],
                    [k \in Names |-> IF k = "geolocation" THEN "absent" ELSE "ok"]}
    /\ \E n \in 0..MaxAnyOrderOrders :
          \E f \in [1..n -> {NaN, 1} \X {Garbled, 0}] :
             csv = [Sample EXCEPT
                       !["orders"] = Table(OrdersCols,
                                           [i \in 1..n |-> OrderRow(i, f[i][1], f[i][2], 3, 2)]),
                       !["payments"] = CohortPayments]
    /\ chartFiles = {}
    /\ Start

SpecAnyOrder == InitAnyOrder /\ [][NextAnyOrder]_vars

\* The run of main's try blocks in the given order, as a function of the
\* datasets, the Fact table and the chart directory it starts from.
RECURSIVE RunInOrder(_, _)
RunInOrder(order, st) ==
    IF order = <<>> THEN st
    ELSE LET d == Head(order)
             r == Derive(d, st.ds, st.f)
         IN RunInOrder(Tail(order),
                [ds |-> DatasetsAfter(d, st.ds),
                 f |-> FactAfter(d, st.f),
                 ret |-> [st.ret EXCEPT ![d] = r],
                 charts |-> IF r.kind = "raise" THEN st.charts
                            ELSE ChartEntry(d, r) @@ st.charts,
                 files |-> IF r.kind = "value" THEN st.files \cup ChartKeys(d)
                           ELSE st.files])

\* What main, calling the derivers in its own order, gets from the input
\* directory of this run (whose chart directory starts empty).
MainRun ==
    LET ds == LoadDatasets(fstatus, csv).datasets
    IN RunInOrder(MainOrder,
                  [ds |-> ds, f |-> BuildFact(ds), ret |-> [d \in Derivers |-> Pending],
                   charts |-> <<>>, files |-> {}])

\* C11: called in any order, every deriver gives what it gives in main's
\* order, and the charts handed to build_presentation are the same.
C11_OrderInsensitive ==
    Built =>
        LET main == MainRun
        IN /\ \A d \in Derivers : Called(d) => ret[d] = main.ret[d]
           /\ pc = "done" => deck.charts = FilterCharts(main.charts, main.files)

\* revenue_by_state and cohort_retention ran before revenue_trends, on a Fact
\* table with a paid order of null month.
C11_Witness ==
    /\ pc = "derive"
    /\ ret["revenue_by_state"].kind = "value"
    /\ ret["cohort_retention"].kind = "value"
    /\ ret["revenue_trends"].kind = "pending"
    /\ \E i \in Indices(fact.rows) :
          fact.rows[i]["month"] = NaN /\ fact.rows[i]["revenue"] > 0

----------------------------------------------------------------------------
(* Properties of the values the derivers compute *)

\* The float x is the quotient n / d of a non-zero divisor.
IsNumber(x, n, d) == x.den # 0 /\ x.num * d = n * x.den

\* The float x is what the division n / d gives, a zero divisor included
\* (0 / 0 is NaN, anything else over 0 is infinite).
IsQuotient(x, n, d) ==
    IF d # 0 THEN IsNumber(x, n, d)
    ELSE x.den = 0 /\ (x.num = 0 <=> n = 0) /\ (x.num > 0 <=> n > 0)

\* Months m1, m2 are neighbours in the month-sorted revenue series rev.
Consecutive(rev, m1, m2) ==
    /\ m1 \in DOMAIN rev
    /\ m2 \in DOMAIN rev
    /\ m1 < m2
    /\ \A m \in DOMAIN rev : ~(m1 < m /\ m < m2)

FirstMonth(rev, m) == m \in DOMAIN rev /\ \A x \in DOMAIN rev : m <= x

\* C12 as stated: growth is 0 for the first month and the quotient
\* (rev[m] - rev[prev]) / rev[prev] * 100 for every later month.
C12_GrowthIsPctChange ==
    ret["revenue_trends"].kind = "value" =>
        LET rev == ret["revenue_trends"].val.rev
            growth == ret["revenue_trends"].val.growth
        IN /\ DOMAIN growth = DOMAIN rev
           /\ \A m \in DOMAIN rev : FirstMonth(rev, m) => IsNumber(growth[m], 0, 1)
           /\ \A p, m \in DOMAIN rev :
                 Consecutive(rev, p, m) =>
                     IsQuotient(growth[m], (rev[m] - rev[p]) * 100, rev[p])

\* C12 (amended): growth is 0 for the first month; for a later month it is
\* (rev[m] - rev[prev]) / rev[prev] * 100 when rev[prev] is not 0, it is 0 when
\* rev[prev] and rev[m] are both 0, and it is infinite when only rev[prev] is 0.
C12_GrowthAmended ==
    ret["revenue_trends"].kind = "value" =>
        LET rev == ret["revenue_trends"].val.rev
            growth == ret["revenue_trends"].val.growth
        IN /\ DOMAIN growth = DOMAIN rev
           /\ \A m \in DOMAIN rev : FirstMonth(rev, m) => IsNumber(growth[m], 0, 1)
           /\ \A p, m \in DOMAIN rev :
                 Consecutive(rev, p, m) =>
                     /\ rev[p] # 0 => IsNumber(growth[m], (rev[m] - rev[p]) * 100, rev[p])
                     /\ (rev[p] = 0 /\ rev[m] = 0) => IsNumber(growth[m], 0, 1)
                     /\ (rev[p] = 0 /\ rev[m] > 0) => growth[m].den = 0 /\ growth[m].num > 0

\* revenue_trends ran on revenue 100 in one month and 75 in the next: growth
\* 0, then -25.
C12_Witness ==
    /\ ret["revenue_trends"].kind = "value"
    /\ \E p, m \in DOMAIN ret["revenue_trends"].val.rev :
          /\ Consecutive(ret["revenue_trends"].val.rev, p, m)
          /\ ret["revenue_trends"].val.rev[p] = 100
          /\ ret["revenue_trends"].val.rev[m] = 75
          /\ IsNumber(ret["revenue_trends"].val.growth[p], 0, 1)
          /\ IsNumber(ret["revenue_trends"].val.growth[m], 0 - 25, 1)

\* C13: every month bucket of average_order_value has a distinct-order count
\* of at least 1, so no division is by zero.
C13_OrderCountPositive ==
    ret["average_order_value"].kind = "value" =>
        \A m \in DOMAIN ret["average_order_value"].val :
            ret["average_order_value"].val[m].den >= 1

\* The states of the geolocation rows of zip prefix z, in row order.
StatesOf(z) ==
    LET g == SelectSeq(datasets["geolocation"].rows,
                       LAMBDA r : r["geolocation_zip_code_prefix"] = z)
    IN [i \in Indices(g) |-> g[i]["geolocation_state"]]

Occurrences(vals, v) == Cardinality({i \in Indices(vals) : vals[i] = v})

\* v is a most frequent value among the non-missing values of vals.
MostFrequent(vals, v) ==
    /\ v # NaN
    /\ \E i \in Indices(vals) : vals[i] = v
    /\ \A i \in Indices(vals) :
          vals[i] # NaN => Occurrences(vals, vals[i]) <= Occurrences(vals, v)

\* The zip prefixes revenue_by_state collapses.
ZipPrefixes == Keys(datasets["geolocation"].rows, "geolocation_zip_code_prefix")

\* The one state zip_state holds for prefix z.
StateOfZip(z) ==
    LET zs == ZipState(datasets["geolocation"].rows)
        hits == {i \in Indices(zs) : zs[i]["geolocation_zip_code_prefix"] = z}
    IN [n |-> Cardinality(hits),
        state |-> zs[CHOOSE i \in hits : TRUE]["geolocation_state"]]

\* revenue_by_state got as far as line 218.
Collapsed ==
    /\ Called("revenue_by_state")
    /\ "geolocation" \in DOMAIN datasets
    /\ "customers" \in DOMAIN datasets
    /\ {"geolocation_zip_code_prefix", "geolocation_state"} \subseteq datasets["geolocation"].cols

C15_CategoryRevenueBounded ==
    ret["category_contribution"].kind = "value" =>
        SumFun(CatSales(datasets, fact)) <=
            SumSeq([i \in Indices(fact.rows) |-> fact.rows[i]["revenue"]])

====
